---------------------------- MODULE Spec2Model ----------------------------
(***************************************************************************)
(* Iridium: the two-phase assembler (src/src/assembler) and the register   *)
(* virtual machine (src/src/vm.rs).                                        *)
(*                                                                         *)
(* Spec   : one call of Assembler::assemble on a fresh Assembler, one loop *)
(*          iteration of each phase per step.                              *)
(* SpecVM : a VM loaded with a program, driven by run() and run_once().    *)
(* SpecRepl : the REPL's VM, fed instruction lines and .clear commands.    *)
(*                                                                         *)
(* Option<T> is a sequence of length 0 (None) or 1 (Some).  Strings of the *)
(* source text that the code reads byte by byte are sequences of bytes.    *)
(***************************************************************************)
EXTENDS Integers, Sequences, FiniteSets, TLC

VARIABLES
    \* ---- Assembler (src/src/assembler/mod.rs:34-44)
    phase, symbols, ro, bytecode, ro_offset, sections, current_section,
    current_instruction, errors,
    \* ---- the assemble() call in progress
    raw,                \* the source handed to assemble, as program() parses it
    stage,              \* "idle" | "first" | "second" | "done"
    idx,                \* position of the `for i in &p.instructions` loop
    assembled_program,  \* local of assemble: the header
    body,               \* local `program` of process_second_phase
    result,             \* what assemble returned
    calls,              \* assemble calls made on this Assembler
    sym_call,           \* the last call made on the SymbolTable by its user
    \* ---- VM (src/src/vm.rs:5-20)
    registers, pc, program, heap, remainder, equal_flag, ro_data,
    \* ---- the VM's caller
    vm_status,          \* "idle" | "running" | "returned" | "exited" | "panicked"
    last,               \* the last execute_instruction call
    steps,              \* execute_instruction calls made so far
    overflow_checks     \* build profile: TRUE = debug (overflow panics)

asm_vars == <<phase, symbols, ro, bytecode, ro_offset, sections, current_section,
              current_instruction, errors, raw, stage, idx, assembled_program,
              body, result, calls, sym_call>>
vm_vars == <<registers, pc, program, heap, remainder, equal_flag, ro_data,
             vm_status, last, steps, overflow_checks>>
vars == <<asm_vars, vm_vars>>

None == <<>>
Some(x) == <<x>>

(***************************************************************************)
(* Bounds of the model.                                                    *)
(***************************************************************************)
MaxInstr == 4       \* instructions in an assembled source
MaxWords == 2       \* 4-byte words in a VM program body
MaxSteps == 3       \* execute_instruction calls per behaviour
MaxHeap == 8        \* ceiling the host puts on the heap

(***************************************************************************)
(* Program constants.                                                      *)
(***************************************************************************)
PIE_HEADER_PREFIX == <<45, 50, 49, 45>>
PIE_HEADER_LENGTH == 64
RUN_START_PC == 65
NUM_REGISTERS == 32

(***************************************************************************)
(* Tokens (src/src/assembler/mod.rs:22-31).  One record shape for all.     *)
(***************************************************************************)
Token(k, v, n, b) == [kind |-> k, value |-> v, name |-> n, bytes |-> b]
Op(code) == Token("Op", 0, code, <<>>)
Register(n) == Token("Register", n, "", <<>>)
IntegerOperand(v) == Token("IntegerOperand", v, "", <<>>)
LabelDeclaration(n) == Token("LabelDeclaration", 0, n, <<>>)
LabelUsage(n) == Token("LabelUsage", 0, n, <<>>)
Directive(n) == Token("Directive", 0, n, <<>>)
IrString(b) == Token("IrString", 0, "", b)


(***************************************************************************)
(* AssemblerInstruction: one line of source (spec section 3): an optional  *)
(* opcode token, an optional directive token, an optional label            *)
(* declaration and up to three operand tokens.                             *)
(***************************************************************************)
AssemblerInstruction(l, o, d, o1, o2, o3) ==
    [label |-> l, opcode |-> o, directive |-> d,
     operand1 |-> o1, operand2 |-> o2, operand3 |-> o3]

is_label(i) == i.label /= None
is_opcode(i) == i.opcode /= None
is_directive(i) == i.directive /= None
has_operands(i) == i.operand1 /= None \/ i.operand2 /= None \/ i.operand3 /= None

get_label_name(i) ==
    IF i.label /= None /\ i.label[1].kind = "LabelDeclaration"
    THEN Some(i.label[1].name) ELSE None

get_directive_name(i) ==
    IF i.directive /= None /\ i.directive[1].kind = "Directive"
    THEN Some(i.directive[1].name) ELSE None

get_string_constant(i) ==
    IF i.operand1 /= None /\ i.operand1[1].kind = "IrString"
    THEN Some(i.operand1[1].bytes) ELSE None

(***************************************************************************)
(* Opcode table (spec section 4.1): mnemonic -> byte, byte -> opcode.      *)
(***************************************************************************)
Mnemonics == <<"load", "add", "sub", "mul", "div", "hlt", "jmp", "jmpf", "jmpb",
               "eq", "neq", "gt", "lt", "gte", "lte", "jmpe", "nop", "aloc",
               "inc", "dec", "djmpe", "prts">>
Opcodes == <<"LOAD", "ADD", "SUB", "MUL", "DIV", "HLT", "JMP", "JMPF", "JMPB",
             "EQ", "NEQ", "GT", "LT", "GTE", "LTE", "JMPE", "NOP", "ALOC",
             "INC", "DEC", "DJMPE", "PRTS">>
IGL_BYTE == 100

\* Opcode::from(u8): any unknown byte decodes to IGL
OpcodeFromByte(b) == IF b + 1 \in DOMAIN Opcodes THEN Opcodes[b + 1] ELSE "IGL"

\* Opcode::from(mnemonic), then the opcode's byte
OpcodeByte(m) ==
    IF \E k \in DOMAIN Mnemonics : Mnemonics[k] = m
    THEN (CHOOSE k \in DOMAIN Mnemonics : Mnemonics[k] = m) - 1
    ELSE IGL_BYTE

(***************************************************************************)
(* SymbolTable (src/src/assembler/symbols.rs).  A symbol is                *)
(* [name, offset: Option<u32>, symbol_type].                               *)
(***************************************************************************)
Symbol_new(n, t) == [name |-> n, symbol_type |-> t, offset |-> None]
Symbol_new_with_offset(n, t, o) == [name |-> n, symbol_type |-> t, offset |-> Some(o)]

add_symbol(tab, s) == Append(tab, s)

has_symbol(tab, s) == \E k \in DOMAIN tab : tab[k].name = s

\* the first symbol of that name, in insertion order
FirstNamed(tab, s) ==
    CHOOSE k \in DOMAIN tab :
        tab[k].name = s /\ \A j \in DOMAIN tab : tab[j].name = s => k <= j

\* set_symbol_offset leaving alone a symbol that already has an offset
set_symbol_offset_once(tab, s, offset) ==
    IF has_symbol(tab, s) /\ tab[FirstNamed(tab, s)].offset = None
    THEN [tab EXCEPT ![FirstNamed(tab, s)].offset = Some(offset)]
    ELSE tab

set_symbol_offset(tab, s, offset) ==
    IF has_symbol(tab, s)
    THEN [tab EXCEPT ![FirstNamed(tab, s)].offset = Some(offset)]
    ELSE tab

symbol_value(tab, s) ==
    IF has_symbol(tab, s) THEN tab[FirstNamed(tab, s)].offset ELSE None

(***************************************************************************)
(* Instruction encoding (spec section 4.4.2): [opcode_byte, b1, b2, b3];   *)
(* a register fills one slot, an integer or a resolved label two slots     *)
(* (high byte first), unused slots are zero.                               *)
(***************************************************************************)
Hi(v) == (v \div 256) % 256
Lo(v) == v % 256

extract_operand(t, tab) ==
    IF t = None THEN <<>>
    ELSE CASE t[1].kind = "Register" -> <<t[1].value % 256>>
           [] t[1].kind = "IntegerOperand" -> <<Hi(t[1].value), Lo(t[1].value)>>
           [] t[1].kind = "LabelUsage" ->
                IF symbol_value(tab, t[1].name) /= None
                THEN <<Hi(symbol_value(tab, t[1].name)[1]),
                       Lo(symbol_value(tab, t[1].name)[1])>>
                ELSE <<>>
           [] OTHER -> <<>>

RECURSIVE PadTo(_, _)
PadTo(bytes, n) == IF Len(bytes) >= n THEN bytes ELSE PadTo(Append(bytes, 0), n)

to_bytes(i, tab) ==
    LET opb == IF i.opcode /= None /\ i.opcode[1].kind = "Op"
               THEN <<OpcodeByte(i.opcode[1].name)>> ELSE <<>>
        all == opb \o extract_operand(i.operand1, tab)
                   \o extract_operand(i.operand2, tab)
                   \o extract_operand(i.operand3, tab)
    IN  SubSeq(PadTo(all, 4), 1, 4)

(***************************************************************************)
(* AssemblerError (src/src/assembler/assembler_errors.rs:5-13).            *)
(***************************************************************************)
AssemblerError(k, n, d) == [kind |-> k, instruction |-> n, directive |-> d]
NoSegmentDeclarationFound(n) == AssemblerError("NoSegmentDeclarationFound", n, "")
StringConstantDeclaredWithoutLabel(n) ==
    AssemblerError("StringConstantDeclaredWithoutLabel", n, "")
SymbolAlreadyDeclared == AssemblerError("SymbolAlreadyDeclared", 0, "")
UnknownDirectiveFound(d) == AssemblerError("UnknownDirectiveFound", 0, d)
InsufficientSections == AssemblerError("InsufficientSections", 0, "")
ParseError == AssemblerError("ParseError", 0, "")

(***************************************************************************)
(* AssemblerSection (src/src/assembler/mod.rs:52-57, 246-260).             *)
(***************************************************************************)
AssemblerSection(k) == [kind |-> k, starting_instruction |-> None]

SectionFrom(name) ==
    CASE name = "data" -> AssemblerSection("Data")
      [] name = "code" -> AssemblerSection("Code")
      [] OTHER -> AssemblerSection("Unknown")

(***************************************************************************)
(* The Assembler's methods, as functions of the Assembler `a` (a record of *)
(* its fields) that return the Assembler they leave behind.                *)
(***************************************************************************)
Self ==
    [phase |-> phase, symbols |-> symbols, ro |-> ro, bytecode |-> bytecode,
     ro_offset |-> ro_offset, sections |-> sections,
     current_section |-> current_section,
     current_instruction |-> current_instruction, errors |-> errors]

\* Assembler::new
Assembler_new ==
    [phase |-> "First", symbols |-> <<>>, ro |-> <<>>, bytecode |-> <<>>,
     ro_offset |-> 0, sections |-> <<>>, current_section |-> None,
     current_instruction |-> 0, errors |-> <<>>]

\* write_pie_header looping `while header.len() <= PIE_HEADER_LENGTH`
write_pie_header_inclusive == PadTo(PIE_HEADER_PREFIX, PIE_HEADER_LENGTH + 1)

write_pie_header == PadTo(PIE_HEADER_PREFIX, PIE_HEADER_LENGTH)

\* process_label_declaration without the has_symbol check
process_label_declaration_unchecked(a, i) ==
    IF get_label_name(i) = None
    THEN [a EXCEPT !.errors =
            Append(@, StringConstantDeclaredWithoutLabel(a.current_instruction))]
    ELSE [a EXCEPT !.symbols =
            add_symbol(@, Symbol_new(get_label_name(i)[1], "Label"))]

process_label_declaration(a, i) ==
    IF get_label_name(i) = None
    THEN [a EXCEPT !.errors =
            Append(@, StringConstantDeclaredWithoutLabel(a.current_instruction))]
    ELSE IF has_symbol(a.symbols, get_label_name(i)[1])
    THEN [a EXCEPT !.errors = Append(@, SymbolAlreadyDeclared)]
    ELSE [a EXCEPT !.symbols =
            add_symbol(@, Symbol_new(get_label_name(i)[1], "Label"))]

process_section_header(a, header_name) ==
    IF SectionFrom(header_name).kind = "Unknown"
    THEN a
    ELSE [a EXCEPT !.sections = Append(@, SectionFrom(header_name)),
                   !.current_section = Some(SectionFrom(header_name))]

\* handle_asciiz not counting the terminator in ro_offset
handle_asciiz_uncounted_terminator(a, i) ==
    IF a.phase /= "First" THEN a
    ELSE IF get_string_constant(i) = None THEN a
    ELSE IF get_label_name(i) = None THEN a
    ELSE LET s == get_string_constant(i)[1]
         IN  [a EXCEPT !.symbols =
                         set_symbol_offset(@, get_label_name(i)[1], a.ro_offset),
                       !.ro = (@ \o s) \o <<0>>,
                       !.ro_offset = @ + Len(s)]

handle_asciiz(a, i) ==
    IF a.phase /= "First" THEN a
    ELSE IF get_string_constant(i) = None THEN a
    ELSE IF get_label_name(i) = None THEN a
    ELSE LET s == get_string_constant(i)[1]
         IN  [a EXCEPT !.symbols =
                         set_symbol_offset(@, get_label_name(i)[1], a.ro_offset),
                       !.ro = (@ \o s) \o <<0>>,
                       !.ro_offset = @ + Len(s) + 1]

process_directive(a, i) ==
    IF get_directive_name(i) = None THEN a
    ELSE IF has_operands(i)
    THEN IF get_directive_name(i)[1] = "asciiz"
         THEN handle_asciiz(a, i)
         ELSE [a EXCEPT !.errors =
                 Append(@, UnknownDirectiveFound(get_directive_name(i)[1]))]
    ELSE process_section_header(a, get_directive_name(i)[1])

\* the label branch registering the label whether a section is open or not
first_phase_label_any_section(a, i) ==
    IF is_label(i) THEN process_label_declaration(a, i) ELSE a

\* one iteration of the loop of process_first_phase
first_phase_label(a, i) ==
    IF is_label(i)
    THEN IF a.current_section /= None
         THEN process_label_declaration(a, i)
         ELSE [a EXCEPT !.errors =
                 Append(@, NoSegmentDeclarationFound(a.current_instruction))]
    ELSE a

\* the loop body of process_first_phase leaving the loop's work undone once
\* an error is recorded
first_phase_iteration_until_error(a, i) ==
    LET a1 == first_phase_label(a, i)
        a2 == IF is_directive(i) THEN process_directive(a1, i) ELSE a1
    IN  IF a.errors /= <<>>
        THEN [a EXCEPT !.current_instruction = @ + 1]
        ELSE [a2 EXCEPT !.current_instruction = @ + 1]

first_phase_iteration(a, i) ==
    LET a1 == first_phase_label(a, i)
        a2 == IF is_directive(i) THEN process_directive(a1, i) ELSE a1
    IN  [a2 EXCEPT !.current_instruction = @ + 1]

\* second_phase_bytes serializing every instruction, directives too
second_phase_bytes_all(a, i) == to_bytes(i, a.symbols)

\* one iteration of the loop of process_second_phase: the bytes it appends
second_phase_bytes(a, i) ==
    IF is_opcode(i) THEN to_bytes(i, a.symbols) ELSE <<>>

second_phase_iteration(a, i) ==
    LET a1 == IF is_directive(i) THEN process_directive(a, i) ELSE a
    IN  [a1 EXCEPT !.current_instruction = @ + 1]

\* the section check asking for one section or more
sections_ok_one(a) == Len(a.sections) >= 1

\* the section check of assemble (mod.rs:84)
sections_ok(a) == Len(a.sections) = 2

(***************************************************************************)
(* Machine integers.  registers are i32; TLC's integers are 32 bits wide   *)
(* too, so no sum or product below is formed before it is known to fit.    *)
(***************************************************************************)
MaxI32 == 2147483647
MinI32 == -2147483647 - 1

AddOverflows(a, b) == (b > 0 /\ a > MaxI32 - b) \/ (b < 0 /\ a < MinI32 - b)
\* a + b modulo 2^32, read as i32
WrapAdd(a, b) ==
    IF b > 0 /\ a > MaxI32 - b THEN (a + MinI32) + (b + MinI32)
    ELSE IF b < 0 /\ a < MinI32 - b THEN (a - MinI32) + (b - MinI32)
    ELSE a + b

SubOverflows(a, b) == (b < 0 /\ a > MaxI32 + b) \/ (b > 0 /\ a < MinI32 + b)
\* a - b modulo 2^32, read as i32
WrapSub(a, b) ==
    IF b < 0 /\ a > MaxI32 + b THEN (a + MinI32) - (b - MinI32)
    ELSE IF b > 0 /\ a < MinI32 + b THEN (a - MinI32) - (b + MinI32)
    ELSE a - b

MulOverflows(a, b) ==
    CASE a = 0 \/ b = 0 -> FALSE
      [] a > 0 /\ b > 0 -> a > MaxI32 \div b
      [] a > 0 /\ b < 0 -> b < (MinI32 + (a - 1)) \div a
      [] a < 0 /\ b > 0 -> a < (MinI32 + (b - 1)) \div b
      [] OTHER -> a = MinI32 \/ b = MinI32 \/ (0 - a) > MaxI32 \div (0 - b)

\* a * b modulo 2^32, read as i32: shift and add over the bits of b
RECURSIVE WrapMulNat(_, _)
WrapMulNat(a, b) ==
    IF b = 0 THEN 0
    ELSE LET rest == WrapMulNat(WrapAdd(a, a), b \div 2)
         IN  IF b % 2 = 1 THEN WrapAdd(a, rest) ELSE rest

WrapMul(a, b) ==
    IF b >= 0 THEN WrapMulNat(a, b)
    ELSE IF b = MinI32 THEN (IF a % 2 = 1 THEN MinI32 ELSE 0)
    ELSE WrapSub(0, WrapMulNat(a, 0 - b))

\* i32 division truncates toward zero; it panics for b = 0 and for MinI32 / -1
DivPanics(a, b) == b = 0 \/ (a = MinI32 /\ b = -1)

TruncDiv(a, b) ==
    IF b > 0
    THEN (IF a < 0 /\ a % b /= 0 THEN (a \div b) + 1 ELSE a \div b)
    ELSE IF b = MinI32 THEN (IF a = MinI32 THEN 1 ELSE 0)
    ELSE LET nb == 0 - b
             q == IF a < 0 /\ a % nb /= 0 THEN (a \div nb) + 1 ELSE a \div nb
         IN  0 - q

TruncRem(a, b) == a - TruncDiv(a, b) * b

\* `v as u32` of an i32: the value modulo 2^32, held as two 16-bit halves
AsU32(v) == [hi |-> (v \div 65536) % 65536, lo |-> v % 65536]

(***************************************************************************)
(* usize.  A usize u is held as u itself while u < 2^31 and as u - 2^64    *)
(* (a negative number) when u >= 2^64 - 2^31; a value in between is `far`  *)
(* and not held.  `v as usize` sign-extends an i32, so a negative register *)
(* becomes an offset beyond every program.                                 *)
(***************************************************************************)
AsUsize(v) == v
\* u >= n for a length n
UsizeGe(u, n) == u < 0 \/ u >= n

(***************************************************************************)
(* Sources: what program() makes of the text handed to assemble.  A source *)
(* either fails to parse or is a Program of one or more instructions.      *)
(***************************************************************************)
NoOperands(l, o, d) == AssemblerInstruction(l, o, d, None, None, None)

Lines ==
    { NoOperands(None, None, Some(Directive("data"))),                \* .data
      NoOperands(None, None, Some(Directive("code"))),                \* .code
      NoOperands(None, None, Some(Directive("wrong"))),               \* .wrong
      NoOperands(None, Some(Op("hlt")), None),                        \* hlt
      AssemblerInstruction(Some(LabelDeclaration("a")), Some(Op("inc")), None,
                           Some(Register(0)), None, None),            \* a: inc $0
      AssemblerInstruction(None, Some(Op("jmpe")), None,
                           Some(LabelUsage("a")), None, None),        \* jmpe @a
      AssemblerInstruction(None, Some(Op("load")), None,
                           Some(Register(0)), Some(IntegerOperand(500)), None),
                                                                      \* load $0 #500
      AssemblerInstruction(Some(LabelDeclaration("a")), None,
                           Some(Directive("asciiz")),
                           Some(IrString(<<72>>)), None, None),       \* a: .asciiz 'H'
      AssemblerInstruction(Some(LabelDeclaration("b")), None,
                           Some(Directive("asciiz")),
                           Some(IrString(<<72, 105>>)), None, None),  \* b: .asciiz 'Hi'
      AssemblerInstruction(None, None, Some(Directive("asciiz")),
                           Some(IrString(<<72>>)), None, None),       \* .asciiz 'H'
      AssemblerInstruction(None, None, Some(Directive("byte")),
                           Some(IntegerOperand(1)), None, None),      \* .byte #1
      AssemblerInstruction(Some(LabelDeclaration("b")), None,
                           Some(Directive("byte")),
                           Some(IntegerOperand(1)), None, None) }     \* b: .byte #1

Programs == UNION { [1..n -> Lines] : n \in 1..MaxInstr }

ParseFailure == [ok |-> FALSE, instructions |-> <<>>]
Sources == { [ok |-> TRUE, instructions |-> p] : p \in Programs } \cup { ParseFailure }

Ok(image) == [ok |-> TRUE, image |-> image, errors |-> <<>>]
Err(errs) == [ok |-> FALSE, image |-> <<>>, errors |-> errs]

\* a call on the SymbolTable: its number, the method, its arguments and, for
\* set_symbol_offset, what it returned
SymCall(n, o, s, off, r) == [seq |-> n, op |-> o, name |-> s, offset |-> off, returned |-> r]
NoSymCall == SymCall(0, "none", "", None, FALSE)

\* what is known of the last execute_instruction call: the pc it was entered
\* with, the byte it decoded (-1: none), how it ended, and whether it indexed
\* the program at or beyond its length
Call(p, b, r) == [pc |-> p, byte |-> b, returned |-> r, outside |-> FALSE]
NoCall == Call(0, -1, "none")

(***************************************************************************)
(* The VM as VM::default() leaves it.                                      *)
(***************************************************************************)
VM_default ==
    /\ registers = [r \in 0..(NUM_REGISTERS - 1) |-> 0]
    /\ pc = 0
    /\ program = <<>>
    /\ heap = <<>>
    /\ remainder = AsU32(0)
    /\ equal_flag = FALSE
    /\ ro_data = <<>>
    /\ vm_status = "idle"
    /\ last = NoCall
    /\ steps = 0
    /\ overflow_checks = FALSE

Assembler_fresh ==
    /\ phase = Assembler_new.phase
    /\ symbols = Assembler_new.symbols
    /\ ro = Assembler_new.ro
    /\ bytecode = Assembler_new.bytecode
    /\ ro_offset = Assembler_new.ro_offset
    /\ sections = Assembler_new.sections
    /\ current_section = Assembler_new.current_section
    /\ current_instruction = Assembler_new.current_instruction
    /\ errors = Assembler_new.errors
    /\ raw = ParseFailure
    /\ stage = "idle"
    /\ idx = 1
    /\ assembled_program = <<>>
    /\ body = <<>>
    /\ result = None
    /\ calls = 0
    /\ sym_call = NoSymCall

Init == Assembler_fresh /\ VM_default

\* the Assembler's fields become those of `a`
Becomes(a) ==
    /\ phase' = a.phase
    /\ symbols' = a.symbols
    /\ ro' = a.ro
    /\ bytecode' = a.bytecode
    /\ ro_offset' = a.ro_offset
    /\ sections' = a.sections
    /\ current_section' = a.current_section
    /\ current_instruction' = a.current_instruction
    /\ errors' = a.errors

(***************************************************************************)
(* Assembler::assemble (mod.rs:74-100), one step per loop iteration.       *)
(***************************************************************************)
\* entry: parse, write the header (mod.rs:75-77, 95-98)
Assemble(src) ==
    /\ raw' = src
    /\ calls' = calls + 1
    /\ idx' = 1
    /\ IF src.ok
       THEN /\ assembled_program' = write_pie_header
            /\ stage' = "first"
            /\ result' = None
       ELSE /\ assembled_program' = assembled_program
            /\ stage' = "done"
            /\ result' = Some(Err(<<ParseError>>))
    /\ UNCHANGED <<phase, symbols, ro, bytecode, ro_offset, sections,
                   current_section, current_instruction, errors, body,
                   sym_call>>
    /\ UNCHANGED vm_vars

\* one iteration of process_first_phase (mod.rs:103-117)
FirstPhaseStep ==
    /\ stage = "first"
    /\ idx <= Len(raw.instructions)
    /\ Becomes(first_phase_iteration(Self, raw.instructions[idx]))
    /\ idx' = idx + 1
    /\ UNCHANGED <<raw, stage, assembled_program, body, result, calls, sym_call>>
    /\ UNCHANGED vm_vars

\* the end of process_first_phase and the checks of assemble (mod.rs:118, 80-88),
\* up to the entry of process_second_phase (mod.rs:122-123)
FirstPhaseEnd ==
    /\ stage = "first"
    /\ idx > Len(raw.instructions)
    /\ LET a == [Self EXCEPT !.phase = "Second"]
       IN  IF a.errors /= <<>>
           THEN /\ Becomes(a)
                /\ result' = Some(Err(a.errors))
                /\ stage' = "done"
                /\ UNCHANGED <<idx, body>>
           ELSE IF ~sections_ok(a)
           THEN /\ Becomes([a EXCEPT !.errors = Append(@, InsufficientSections)])
                /\ result' = Some(Err(Append(a.errors, InsufficientSections)))
                /\ stage' = "done"
                /\ UNCHANGED <<idx, body>>
           ELSE /\ Becomes([a EXCEPT !.current_instruction = 0])
                /\ result' = None
                /\ stage' = "second"
                /\ idx' = 1
                /\ body' = <<>>
    /\ UNCHANGED <<raw, assembled_program, calls, sym_call>>
    /\ UNCHANGED vm_vars

\* one iteration of process_second_phase (mod.rs:125-134)
SecondPhaseStep ==
    /\ stage = "second"
    /\ idx <= Len(raw.instructions)
    /\ body' = body \o second_phase_bytes(Self, raw.instructions[idx])
    /\ Becomes(second_phase_iteration(Self, raw.instructions[idx]))
    /\ idx' = idx + 1
    /\ UNCHANGED <<raw, stage, assembled_program, result, calls, sym_call>>
    /\ UNCHANGED vm_vars

\* the return of assemble (mod.rs:90-93)
SecondPhaseEnd ==
    /\ stage = "second"
    /\ idx > Len(raw.instructions)
    /\ result' = Some(Ok(assembled_program \o body))
    /\ stage' = "done"
    /\ UNCHANGED <<phase, symbols, ro, bytecode, ro_offset, sections,
                   current_section, current_instruction, errors,
                   raw, idx, assembled_program, body, calls, sym_call>>
    /\ UNCHANGED vm_vars

AssembleCall == stage = "idle" /\ \E src \in Sources : Assemble(src)

Next ==
    \/ AssembleCall
    \/ FirstPhaseStep
    \/ FirstPhaseEnd
    \/ SecondPhaseStep
    \/ SecondPhaseEnd

Spec == Init /\ [][Next]_vars

(***************************************************************************)
(* assemble as one function of the Assembler and the source: the loops of  *)
(* the two phases run to their end.                                        *)
(***************************************************************************)
RECURSIVE process_first_phase(_, _, _)
process_first_phase(a, p, k) ==
    IF k > Len(p) THEN [a EXCEPT !.phase = "Second"]
    ELSE process_first_phase(first_phase_iteration(a, p[k]), p, k + 1)

RECURSIVE process_second_phase(_, _, _)
process_second_phase(a, p, k) ==
    IF k > Len(p) THEN <<>>
    ELSE second_phase_bytes(a, p[k])
           \o process_second_phase(second_phase_iteration(a, p[k]), p, k + 1)

assemble(a, src) ==
    IF ~src.ok THEN Err(<<ParseError>>)
    ELSE LET a1 == process_first_phase(a, src.instructions, 1)
         IN  IF a1.errors /= <<>> THEN Err(a1.errors)
             ELSE IF ~sections_ok(a1) THEN Err(Append(a1.errors, InsufficientSections))
             ELSE Ok(write_pie_header
                       \o process_second_phase([a1 EXCEPT !.current_instruction = 0],
                                               src.instructions, 1))

(***************************************************************************)
(* The SymbolTable alone (symbols.rs:38-76), driven by a user who adds     *)
(* symbols under names not yet in the table and sets offsets.              *)
(***************************************************************************)
MaxSymCalls == 4    \* calls on the SymbolTable per behaviour

SymbolNames == {"a", "b", "c"}
SymbolOffsets == {0, 3, 7}

\* set_symbol_offset's return value (symbols.rs:58-66)
set_symbol_offset_returns(tab, s) == has_symbol(tab, s)

OnlySymbols ==
    UNCHANGED <<phase, ro, bytecode, ro_offset, sections, current_section,
                current_instruction, errors, raw, stage, idx, assembled_program,
                body, result, calls>>

\* add_symbol(Symbol::new(..)) and add_symbol(Symbol::new_with_offset(..))
AddSymbol ==
    /\ sym_call.seq < MaxSymCalls
    /\ \E n \in SymbolNames, off \in {None} \cup {Some(o) : o \in SymbolOffsets} :
          /\ ~has_symbol(symbols, n)
          /\ symbols' = add_symbol(symbols,
                            IF off = None THEN Symbol_new(n, "Label")
                            ELSE Symbol_new_with_offset(n, "Label", off[1]))
          /\ sym_call' = SymCall(sym_call.seq + 1, "add", n, off, FALSE)
    /\ OnlySymbols
    /\ UNCHANGED vm_vars

SetSymbolOffset ==
    /\ sym_call.seq < MaxSymCalls
    /\ \E n \in SymbolNames, o \in SymbolOffsets :
          /\ symbols' = set_symbol_offset(symbols, n, o)
          /\ sym_call' = SymCall(sym_call.seq + 1, "set_offset", n, Some(o),
                                 set_symbol_offset_returns(symbols, n))
    /\ OnlySymbols
    /\ UNCHANGED vm_vars

NextSymbols == AddSymbol \/ SetSymbolOffset

SpecSymbols == Init /\ [][NextSymbols]_vars

(***************************************************************************)
(* An Assembler used for more than one assemble call: the second call      *)
(* starts on the fields the first one left.                                *)
(***************************************************************************)
MaxCalls == 2       \* assemble calls on one Assembler
MaxReuseInstr == 3  \* instructions in a source given to a reused Assembler

ReuseLines ==
    { NoOperands(None, None, Some(Directive("data"))),
      NoOperands(None, None, Some(Directive("code"))),
      NoOperands(None, Some(Op("hlt")), None),
      AssemblerInstruction(Some(LabelDeclaration("a")), None,
                           Some(Directive("asciiz")),
                           Some(IrString(<<72>>)), None, None) }

ReuseSources ==
    { [ok |-> TRUE, instructions |-> p] :
         p \in UNION { [1..n -> ReuseLines] : n \in 1..MaxReuseInstr } }
    \cup { ParseFailure }

AssembleFirst == stage = "idle" /\ \E src \in ReuseSources : Assemble(src)

AssembleAgain ==
    /\ stage = "done"
    /\ calls < MaxCalls
    /\ \E src \in ReuseSources : Assemble(src)

NextReuse ==
    \/ AssembleFirst
    \/ AssembleAgain
    \/ FirstPhaseStep
    \/ FirstPhaseEnd
    \/ SecondPhaseStep
    \/ SecondPhaseEnd

SpecReuse == Init /\ [][NextReuse]_vars

(***************************************************************************)
(* VM::execute_instruction (vm.rs:47-218) on the machine m: the VM's       *)
(* fields, the bytes read so far (acc), and whether the call has panicked  *)
(* (trap), has panicked on self.program[i] with i >= program.len()         *)
(* (outside), or left the integers this model holds (far).                 *)
(***************************************************************************)
Machine ==
    [registers |-> registers, pc |-> pc, heap |-> heap, remainder |-> remainder,
     equal_flag |-> equal_flag, acc |-> <<>>, trap |-> FALSE, outside |-> FALSE,
     far |-> FALSE]

Stopped(m) == m.trap \/ m.far
Panic(m) == [m EXCEPT !.trap = TRUE]
\* the panic of an index into the program that is out of range
OutOfRange(m) == [m EXCEPT !.trap = TRUE, !.outside = TRUE]

\* next_8_bits (vm.rs:226-230); decode_opcode reads its byte the same way
next_8_bits(m) ==
    IF Stopped(m) THEN m
    ELSE IF UsizeGe(m.pc, Len(program)) THEN OutOfRange(m)
    ELSE [m EXCEPT !.acc = Append(@, program[m.pc + 1]), !.pc = @ + 1]

\* next_16_bits (vm.rs:232-236), big-endian
next_16_bits(m) ==
    IF Stopped(m) THEN m
    ELSE IF UsizeGe(m.pc, Len(program)) \/ UsizeGe(m.pc + 1, Len(program))
    THEN OutOfRange(m)
    ELSE [m EXCEPT !.acc = Append(@, program[m.pc + 1] * 256 + program[m.pc + 2]),
                   !.pc = @ + 2]

\* self.registers[acc[k]]: the index must be below 32
index_register(m, k) ==
    IF Stopped(m) THEN m
    ELSE IF m.acc[k] >= NUM_REGISTERS THEN Panic(m)
    ELSE m

\* an i32 operation that overflowed: a panic with overflow checks, else wrapped
overflow(m, overflowed) ==
    IF Stopped(m) THEN m
    ELSE IF overflowed /\ overflow_checks THEN Panic(m)
    ELSE m

\* LOAD (vm.rs:53-58)
exec_LOAD(m) ==
    LET m1 == index_register(next_16_bits(next_8_bits(m)), 2)
    IN  IF Stopped(m1) THEN m1
        ELSE [m1 EXCEPT !.registers[m1.acc[2]] = m1.acc[3]]

\* the i32 operation of an arithmetic opcode, and whether it overflows
Overflows(op, a, b) ==
    CASE op \in {"ADD", "INC"} -> AddOverflows(a, b)
      [] op \in {"SUB", "DEC"} -> SubOverflows(a, b)
      [] op = "MUL" -> MulOverflows(a, b)

Wrap(op, a, b) ==
    CASE op \in {"ADD", "INC"} -> WrapAdd(a, b)
      [] op \in {"SUB", "DEC"} -> WrapSub(a, b)
      [] op = "MUL" -> WrapMul(a, b)

\* ADD, SUB, MUL (vm.rs:59-73): both sources, the operation, then the target
exec_arith(m, op) ==
    LET m1 == index_register(next_8_bits(m), 2)
        m2 == index_register(next_8_bits(m1), 3)
        m3 == IF Stopped(m2) THEN m2
              ELSE overflow(m2, Overflows(op, m2.registers[m2.acc[2]],
                                          m2.registers[m2.acc[3]]))
        m4 == index_register(next_8_bits(m3), 4)
    IN  IF Stopped(m4) THEN m4
        ELSE [m4 EXCEPT !.registers[m4.acc[4]] =
                            Wrap(op, m.registers[m4.acc[2]], m.registers[m4.acc[3]])]

\* DIV (vm.rs:74-79)
exec_DIV(m) ==
    LET m1 == index_register(next_8_bits(m), 2)
        m2 == index_register(next_8_bits(m1), 3)
        m3 == IF Stopped(m2) THEN m2
              ELSE IF DivPanics(m2.registers[m2.acc[2]], m2.registers[m2.acc[3]])
              THEN Panic(m2) ELSE m2
        m4 == index_register(next_8_bits(m3), 4)
    IN  IF Stopped(m4) THEN m4
        ELSE [m4 EXCEPT
                !.registers[m4.acc[4]] =
                    TruncDiv(m.registers[m4.acc[2]], m.registers[m4.acc[3]]),
                !.remainder =
                    AsU32(TruncRem(m.registers[m4.acc[2]], m.registers[m4.acc[3]]))]

\* JMP (vm.rs:84-87)
exec_JMP(m) ==
    LET m1 == index_register(next_8_bits(m), 2)
    IN  IF Stopped(m1) THEN m1
        ELSE [m1 EXCEPT !.pc = AsUsize(m1.registers[m1.acc[2]])]

\* JMPF adding to the offset of the register operand byte, not to the offset
\* after it
exec_JMPF_from_operand(m) ==
    LET m1 == index_register(next_8_bits(m), 2)
    IN  IF Stopped(m1) THEN m1
        ELSE LET value == AsUsize(m1.registers[m1.acc[2]])
             IN  IF value >= 0
                 THEN IF value > MaxI32 - m1.pc
                      THEN [m1 EXCEPT !.far = TRUE]
                      ELSE [m1 EXCEPT !.pc = m.pc + value]
                 ELSE IF m1.pc + value >= 0 /\ overflow_checks
                      THEN Panic(m1)
                      ELSE [m1 EXCEPT !.pc = @ + value]

\* JMPF (vm.rs:88-91): pc += value, a usize sum
exec_JMPF(m) ==
    LET m1 == index_register(next_8_bits(m), 2)
    IN  IF Stopped(m1) THEN m1
        ELSE LET value == AsUsize(m1.registers[m1.acc[2]])
             IN  IF value >= 0
                 THEN IF value > MaxI32 - m1.pc
                      THEN [m1 EXCEPT !.far = TRUE]
                      ELSE [m1 EXCEPT !.pc = @ + value]
                 ELSE IF m1.pc + value >= 0 /\ overflow_checks
                      THEN Panic(m1)
                      ELSE [m1 EXCEPT !.pc = @ + value]

\* JMPB (vm.rs:92-95): pc -= value, a usize difference
exec_JMPB(m) ==
    LET m1 == index_register(next_8_bits(m), 2)
    IN  IF Stopped(m1) THEN m1
        ELSE LET value == AsUsize(m1.registers[m1.acc[2]])
             IN  IF value >= 0
                 THEN IF value > m1.pc /\ overflow_checks
                      THEN Panic(m1)
                      ELSE [m1 EXCEPT !.pc = @ - value]
                 ELSE IF overflow_checks THEN Panic(m1)
                      ELSE IF m1.pc > MaxI32 + value
                      THEN [m1 EXCEPT !.far = TRUE]
                      ELSE [m1 EXCEPT !.pc = @ - value]

\* the comparisons with GT testing >= instead of >
Compare_gt_inclusive(op, a, b) ==
    CASE op = "EQ" -> a = b
      [] op = "NEQ" -> a /= b
      [] op = "GT" -> a >= b
      [] op = "LT" -> a < b
      [] op = "GTE" -> a >= b
      [] op = "LTE" -> a <= b

\* the comparisons (vm.rs:96-155)
Compare(op, a, b) ==
    CASE op = "EQ" -> a = b
      [] op = "NEQ" -> a /= b
      [] op = "GT" -> a > b
      [] op = "LT" -> a < b
      [] op = "GTE" -> a >= b
      [] op = "LTE" -> a <= b

exec_compare(m, op) ==
    LET m1 == index_register(next_8_bits(m), 2)
        m2 == index_register(next_8_bits(m1), 3)
        m3 == IF Stopped(m2) THEN m2
              ELSE [m2 EXCEPT !.equal_flag =
                        Compare(op, m2.registers[m2.acc[2]], m2.registers[m2.acc[3]])]
    IN  next_8_bits(m3)

\* JMPE skipping one operand byte, not two, when the flag is false
exec_JMPE_short_skip(m) ==
    LET m1 == index_register(next_8_bits(m), 2)
    IN  IF Stopped(m1) THEN m1
        ELSE IF m1.equal_flag
        THEN [m1 EXCEPT !.pc = AsUsize(m1.registers[m1.acc[2]])]
        ELSE next_8_bits(m1)

\* JMPE (vm.rs:156-164)
exec_JMPE(m) ==
    LET m1 == index_register(next_8_bits(m), 2)
    IN  IF Stopped(m1) THEN m1
        ELSE IF m1.equal_flag
        THEN [m1 EXCEPT !.pc = AsUsize(m1.registers[m1.acc[2]])]
        ELSE next_16_bits(m1)

\* NOP (vm.rs:165-169)
exec_NOP(m) == next_8_bits(next_8_bits(next_8_bits(m)))

\* ALOC resizing the heap to `bytes`, not to heap.len() + bytes
exec_ALOC_absolute(m) ==
    LET m1 == index_register(next_8_bits(m), 2)
    IN  IF Stopped(m1) THEN m1
        ELSE LET bytes == m1.registers[m1.acc[2]]
                 new_end == AsUsize(bytes)
             IN  IF new_end < 0 THEN Panic(m1)
                 ELSE IF new_end > MaxHeap THEN [m1 EXCEPT !.far = TRUE]
                 ELSE IF new_end <= Len(m1.heap)
                 THEN [m1 EXCEPT !.heap = SubSeq(@, 1, new_end)]
                 ELSE [m1 EXCEPT !.heap = PadTo(@, new_end)]

\* ALOC (vm.rs:170-175): heap.resize(heap.len() as i32 + bytes, 0)
exec_ALOC(m) ==
    LET m1 == index_register(next_8_bits(m), 2)
    IN  IF Stopped(m1) THEN m1
        ELSE LET bytes == m1.registers[m1.acc[2]]
                 m2 == overflow(m1, AddOverflows(Len(m1.heap), bytes))
                 new_end == AsUsize(WrapAdd(Len(m1.heap), bytes))
             IN  IF Stopped(m2) THEN m2
                 ELSE IF new_end < 0 THEN Panic(m2)
                 ELSE IF new_end > MaxHeap THEN [m2 EXCEPT !.far = TRUE]
                 ELSE IF new_end <= Len(m2.heap)
                 THEN [m2 EXCEPT !.heap = SubSeq(@, 1, new_end)]
                 ELSE [m2 EXCEPT !.heap = PadTo(@, new_end)]

\* INC, DEC (vm.rs:176-187)
exec_count(m, op) ==
    LET m1 == index_register(next_8_bits(m), 2)
        m2 == IF Stopped(m1) THEN m1
              ELSE overflow(m1, Overflows(op, m1.registers[m1.acc[2]], 1))
        m3 == IF Stopped(m2) THEN m2
              ELSE [m2 EXCEPT !.registers[m2.acc[2]] = Wrap(op, @, 1)]
    IN  next_8_bits(next_8_bits(m3))

\* DJMPE (vm.rs:188-196)
exec_DJMPE(m) ==
    LET m1 == next_16_bits(m)
    IN  IF Stopped(m1) THEN m1
        ELSE IF m1.equal_flag
        THEN next_8_bits([m1 EXCEPT !.pc = m1.acc[2]])
        ELSE next_8_bits(m1)

\* PRTS (vm.rs:197-211): scans ro_data from the offset to the first zero
exec_PRTS(m) ==
    LET m1 == next_16_bits(m)
    IN  IF Stopped(m1) THEN m1
        ELSE IF \E e \in DOMAIN ro_data : e > m1.acc[2] /\ ro_data[e] = 0
        THEN m1
        ELSE Panic(m1)

\* the match with the HLT and IGL arms reading the three padding bytes
dispatch_padded(m, opcode) ==
    CASE opcode = "LOAD" -> exec_LOAD(m)
      [] opcode \in {"ADD", "SUB", "MUL"} -> exec_arith(m, opcode)
      [] opcode = "DIV" -> exec_DIV(m)
      [] opcode = "JMP" -> exec_JMP(m)
      [] opcode = "JMPF" -> exec_JMPF(m)
      [] opcode = "JMPB" -> exec_JMPB(m)
      [] opcode \in {"EQ", "NEQ", "GT", "LT", "GTE", "LTE"} -> exec_compare(m, opcode)
      [] opcode = "JMPE" -> exec_JMPE(m)
      [] opcode = "NOP" -> exec_NOP(m)
      [] opcode = "ALOC" -> exec_ALOC(m)
      [] opcode \in {"INC", "DEC"} -> exec_count(m, opcode)
      [] opcode = "DJMPE" -> exec_DJMPE(m)
      [] opcode = "PRTS" -> exec_PRTS(m)
      [] OTHER -> exec_NOP(m)

\* the match of execute_instruction (vm.rs:52-216) on the decoded opcode
dispatch(m, opcode) ==
    CASE opcode = "LOAD" -> exec_LOAD(m)
      [] opcode \in {"ADD", "SUB", "MUL"} -> exec_arith(m, opcode)
      [] opcode = "DIV" -> exec_DIV(m)
      [] opcode = "JMP" -> exec_JMP(m)
      [] opcode = "JMPF" -> exec_JMPF(m)
      [] opcode = "JMPB" -> exec_JMPB(m)
      [] opcode \in {"EQ", "NEQ", "GT", "LT", "GTE", "LTE"} -> exec_compare(m, opcode)
      [] opcode = "JMPE" -> exec_JMPE(m)
      [] opcode = "NOP" -> exec_NOP(m)
      [] opcode = "ALOC" -> exec_ALOC(m)
      [] opcode \in {"INC", "DEC"} -> exec_count(m, opcode)
      [] opcode = "DJMPE" -> exec_DJMPE(m)
      [] opcode = "PRTS" -> exec_PRTS(m)
      [] OTHER -> m

\* the IGL arm falling through to the `false` at the end of the match
returns_true_hlt_only(opcode) == opcode = "HLT"

\* whether the opcode's arm returns true (vm.rs:80-83, 212-215)
returns_true(opcode) == opcode \in {"HLT", "IGL"}

\* execute_instruction: [m: the machine after, returned: "true" | "false" | "panic"]
execute_instruction(m) ==
    IF UsizeGe(m.pc, Len(program))
    THEN [m |-> m, opcode |-> "", returned |-> "true"]
    ELSE LET d == next_8_bits(m)
             opcode == OpcodeFromByte(d.acc[1])
             after == dispatch(d, opcode)
         IN  [m |-> after, opcode |-> opcode,
              returned |-> IF after.trap THEN "panic"
                           ELSE IF returns_true(opcode) THEN "true" ELSE "false"]

(***************************************************************************)
(* The VM under test: a program, register contents and flag set by the     *)
(* host (the fields are set directly, as the tests of vm.rs do), then      *)
(* run() or a series of run_once().                                        *)
(***************************************************************************)
Words ==
    { <<0, 1, 0, 3>>,       \* load $1 #3
      <<1, 0, 1, 2>>,       \* add $0 $1 $2
      <<1, 0, 2, 2>>,       \* add $0 $2 $2
      <<2, 0, 1, 2>>,       \* sub $0 $1 $2
      <<3, 0, 1, 2>>,       \* mul $0 $1 $2
      <<4, 0, 1, 2>>,       \* div $0 $1 $2
      <<5, 0, 0, 0>>,       \* hlt
      <<6, 1, 0, 0>>,       \* jmp $1
      <<7, 1, 0, 0>>,       \* jmpf $1
      <<8, 1, 0, 0>>,       \* jmpb $1
      <<9, 0, 1, 0>>,       \* eq $0 $1
      <<10, 0, 1, 0>>,      \* neq $0 $1
      <<11, 0, 1, 0>>,      \* gt $0 $1
      <<12, 0, 1, 0>>,      \* lt $0 $1
      <<13, 0, 1, 0>>,      \* gte $0 $1
      <<14, 0, 1, 0>>,      \* lte $0 $1
      <<15, 1, 0, 0>>,      \* jmpe $1
      <<16, 0, 0, 0>>,      \* nop
      <<17, 1, 0, 0>>,      \* aloc $1
      <<17, 0, 0, 0>>,      \* aloc $0
      <<17, 1, 17, 0>>,     \* aloc $1, then aloc $0 in the bytes ALOC leaves unread
      <<18, 0, 0, 0>>,      \* inc $0
      <<18, 32, 0, 0>>,     \* inc $32
      <<19, 0, 0, 0>>,      \* dec $0
      <<20, 0, 4, 0>>,      \* djmpe 4
      <<21, 0, 0, 0>>,      \* prts 0
      <<200, 0, 0, 0>> }    \* an unknown opcode

RECURSIVE Flatten(_)
Flatten(ws) == IF ws = <<>> THEN <<>> ELSE Head(ws) \o Flatten(Tail(ws))

Bodies == { Flatten(ws) : ws \in UNION { [1..n -> Words] : n \in 0..MaxWords } }

\* a word that lost its last k bytes: a program that ends inside an instruction
Truncated == { SubSeq(w, 1, 4 - k) : w \in Words, k \in 1..3 }

\* the header of vm.rs' tests (prepend_header, vm.rs:258-268): 65 bytes
prepend_header(b) == PadTo(PIE_HEADER_PREFIX, PIE_HEADER_LENGTH + 1) \o b

\* a header whose fourth byte is not the magic one
BadHeader == PadTo(<<45, 50, 49, 46>>, PIE_HEADER_LENGTH)

VMPrograms ==
    Bodies \cup Truncated
      \cup { write_pie_header \o b : b \in Bodies }
      \cup { prepend_header(w) : w \in Words }
      \cup { BadHeader \o <<18, 0, 0, 0>> }

\* registers[0], registers[1] as the host sets them
RegisterPairs ==
    { <<4, 4>>, <<-1, 4>>, <<7, 0>>, <<MaxI32, 1>>, <<MinI32, -1>> }

InitVM ==
    /\ Assembler_fresh
    /\ program \in VMPrograms
    /\ \E rp \in RegisterPairs :
          registers = [r \in 0..(NUM_REGISTERS - 1) |->
                          IF r = 0 THEN rp[1] ELSE IF r = 1 THEN rp[2] ELSE 0]
    /\ equal_flag \in BOOLEAN
    /\ ro_data \in { <<>>, <<72, 0>> }
    /\ overflow_checks \in BOOLEAN
    /\ pc = 0
    /\ heap = <<>>
    /\ remainder = AsU32(0)
    /\ vm_status = "idle"
    /\ last = NoCall
    /\ steps = 0

\* the VM's fields become those of machine m
BecomesVM(m) ==
    /\ registers' = m.registers
    /\ pc' = m.pc
    /\ heap' = m.heap
    /\ remainder' = m.remainder
    /\ equal_flag' = m.equal_flag

\* verify_header (vm.rs:245-250): "panic" when the slice 0..4 is out of range
verify_header ==
    IF Len(program) < 4 THEN "panic"
    ELSE IF SubSeq(program, 1, 4) /= PIE_HEADER_PREFIX THEN "false"
    ELSE "true"

\* one call of execute_instruction from `from`, leaving the caller in `to`
\* when it returns false
Execute(entry_pc, stay, stop) ==
    LET e == execute_instruction([Machine EXCEPT !.pc = entry_pc])
    IN  /\ steps < MaxSteps
        /\ ~e.m.far
        /\ BecomesVM(e.m)
        /\ steps' = steps + 1
        /\ last' = [Call(entry_pc,
                         IF UsizeGe(entry_pc, Len(program)) THEN -1
                         ELSE program[entry_pc + 1],
                         e.returned) EXCEPT !.outside = e.m.outside]
        /\ vm_status' = CASE e.returned = "panic" -> "panicked"
                          [] e.returned = "true" -> stop
                          [] OTHER -> stay
        /\ UNCHANGED <<program, ro_data, overflow_checks>>
        /\ UNCHANGED asm_vars

\* run() up to its loop (vm.rs:24-29), on a VM that has not been stepped
Run ==
    /\ vm_status = "idle"
    /\ steps = 0
    /\ IF verify_header = "true"
       THEN /\ pc' = RUN_START_PC
            /\ vm_status' = "running"
       ELSE /\ pc' = pc
            /\ vm_status' = IF verify_header = "panic" THEN "panicked" ELSE "exited"
    /\ UNCHANGED <<registers, program, heap, remainder, equal_flag, ro_data,
                   last, steps, overflow_checks>>
    /\ UNCHANGED asm_vars

\* one turn of the loop of run() (vm.rs:30-32)
RunLoop ==
    /\ vm_status = "running"
    /\ Execute(pc, "running", "returned")

\* run_once() (vm.rs:35-37)
RunOnce ==
    /\ vm_status = "idle"
    /\ Execute(pc, "idle", "idle")

NextVM == Run \/ RunLoop \/ RunOnce

SpecVM == InitVM /\ [][NextVM]_vars

(***************************************************************************)
(* The REPL (src/src/repl/mod.rs): a VM as VM::default() leaves it, fed    *)
(* one line at a time.  A line that is not a command is parsed, its bytes  *)
(* are appended to the VM's program, and run_once() is called; the arm is  *)
(* modelled in its two statements, vm_status = "appended" being the        *)
(* position between them.                                                  *)
(***************************************************************************)
\* instruction lines typed at the prompt, none of them a jump
ReplLines ==
    { AssemblerInstruction(None, Some(Op("load")), None,
                           Some(Register(0)), Some(IntegerOperand(500)), None),
                                                                      \* load $0 #500
      AssemblerInstruction(None, Some(Op("add")), None,
                           Some(Register(0)), Some(Register(1)), Some(Register(2))),
                                                                      \* add $0 $1 $2
      AssemblerInstruction(None, Some(Op("inc")), None,
                           Some(Register(0)), None, None),            \* inc $0
      AssemblerInstruction(None, Some(Op("aloc")), None,
                           Some(Register(0)), None, None),            \* aloc $0
      NoOperands(None, Some(Op("nop")), None),                        \* nop
      NoOperands(None, Some(Op("hlt")), None) }                       \* hlt

\* Program::to_bytes of a one-line program (program_parsers.rs:11-17)
Program_to_bytes(line) == to_bytes(line, Assembler_new.symbols)

InitRepl == Assembler_fresh /\ VM_default

\* the default arm up to the append (repl/mod.rs:84-92)
ReplAppend ==
    /\ vm_status = "idle"
    /\ steps < MaxSteps
    /\ \E line \in ReplLines : program' = program \o Program_to_bytes(line)
    /\ vm_status' = "appended"
    /\ UNCHANGED <<registers, pc, heap, remainder, equal_flag, ro_data,
                   last, steps, overflow_checks>>
    /\ UNCHANGED asm_vars

\* the default arm's run_once (repl/mod.rs:93)
ReplRunOnce ==
    /\ vm_status = "appended"
    /\ Execute(pc, "idle", "idle")

\* the .clear command (repl/mod.rs:59-62)
ReplClear ==
    /\ vm_status = "idle"
    /\ program' = <<>>
    /\ UNCHANGED <<registers, pc, heap, remainder, equal_flag, ro_data,
                   vm_status, last, steps, overflow_checks>>
    /\ UNCHANGED asm_vars

NextRepl == ReplAppend \/ ReplRunOnce \/ ReplClear

SpecRepl == InitRepl /\ [][NextRepl]_vars

(***************************************************************************)
(* Properties of the assembler.                                            *)
(***************************************************************************)
Returned == stage = "done" /\ result /= None
ReturnedOk == Returned /\ result[1].ok
ReturnedErr == Returned /\ ~result[1].ok

count_of_opcodes(p) == Cardinality({k \in DOMAIN p : p[k].opcode /= None})
count_of_directives(p) == Cardinality({k \in DOMAIN p : p[k].directive /= None})

\* a section header the assembler recognizes: `.data` or `.code`, no operands
IsSectionHeader(i) ==
    /\ i.directive /= None
    /\ i.operand1 = None /\ i.operand2 = None /\ i.operand3 = None
    /\ i.directive[1].name \in {"data", "code"}

HeaderNames(p) == {p[k].directive[1].name : k \in {j \in DOMAIN p : IsSectionHeader(p[j])}}
count_of_headers(p) == Cardinality({k \in DOMAIN p : IsSectionHeader(p[k])})

ErrorKinds(errs) == {errs[k].kind : k \in DOMAIN errs}

\* C1: a successful assemble returns an image of exactly
\* 64 + 4 * (number of opcode instructions of the source) bytes
C1_EncodingWidth ==
    ReturnedOk =>
        Len(result[1].image) = 64 + 4 * count_of_opcodes(raw.instructions)

C1_Witness ==
    /\ ReturnedOk
    /\ count_of_opcodes(raw.instructions) = 2
    /\ count_of_directives(raw.instructions) = 2
    /\ Len(result[1].image) = 72

\* C2: a successful assemble returns an image that starts with the magic
\* bytes 0x2D,0x32,0x31,0x2D followed by zeros up to byte 63, and the header
\* written at entry is exactly 64 bytes long whatever the source
C2_Header ==
    /\ (stage \in {"first", "second"} \/ ReturnedOk) => Len(assembled_program) = 64
    /\ ReturnedOk =>
        /\ Len(result[1].image) >= 64
        /\ SubSeq(result[1].image, 1, 4) = <<45, 50, 49, 45>>
        /\ \A k \in 5..64 : result[1].image[k] = 0
        /\ SubSeq(result[1].image, 1, 64) = assembled_program

C2_Witness ==
    /\ ReturnedOk
    /\ Len(result[1].image) > 64
    /\ result[1].image[1] = 45

\* two declarations of one label name, at instructions j < k
SameLabel(p, j, k) ==
    /\ j < k
    /\ p[j].label /= None /\ p[k].label /= None
    /\ p[j].label[1].name = p[k].label[1].name

\* instruction k comes after a recognized section header
InSection(p, k) == \E h \in DOMAIN p : h < k /\ IsSectionHeader(p[h])

UniqueNames(tab) ==
    \A j, k \in DOMAIN tab : tab[j].name = tab[k].name => j = k

\* C8 as stated: a source with two label declarations of the same name is
\* answered with an error list that contains SymbolAlreadyDeclared, and the
\* symbol table never holds two symbols of the same name
C8_AsStated ==
    /\ UniqueNames(symbols)
    /\ (Returned /\ raw.ok
          /\ \E j, k \in DOMAIN raw.instructions : SameLabel(raw.instructions, j, k))
       => (ReturnedErr /\ "SymbolAlreadyDeclared" \in ErrorKinds(result[1].errors))

\* C8, amended: when both declarations come after a recognized section
\* header, the error list returned contains SymbolAlreadyDeclared; and the
\* symbol table never holds two symbols of the same name
C8_DuplicateInSection ==
    /\ UniqueNames(symbols)
    /\ (Returned /\ raw.ok
          /\ \E j, k \in DOMAIN raw.instructions :
                /\ SameLabel(raw.instructions, j, k)
                /\ InSection(raw.instructions, j))
       => (ReturnedErr /\ "SymbolAlreadyDeclared" \in ErrorKinds(result[1].errors))

C8_Witness ==
    /\ ReturnedErr
    /\ \E j, k \in DOMAIN raw.instructions :
          SameLabel(raw.instructions, j, k) /\ InSection(raw.instructions, j)
    /\ result[1].errors = <<SymbolAlreadyDeclared>>
    /\ Len(symbols) = 1

\* C9: a source that parses, records no error in phase 1 and declares at
\* most one recognized section header is answered with exactly
\* [InsufficientSections], and no bytecode is emitted
C9_SectionRequirement ==
    (Returned /\ raw.ok
       /\ ErrorKinds(errors) \subseteq {"InsufficientSections"}
       /\ count_of_headers(raw.instructions) <= 1)
    => /\ result[1] = Err(<<InsufficientSections>>)
       /\ body = <<>>
       /\ bytecode = <<>>

C9_Witness ==
    /\ ReturnedErr
    /\ count_of_headers(raw.instructions) = 1
    /\ count_of_opcodes(raw.instructions) >= 1
    /\ result[1].errors = <<InsufficientSections>>

\* C10: the section check accepts a program exactly when its section
\* headers include a data section and a code section (two or more headers,
\* any order): such a program is not answered InsufficientSections, and a
\* program lacking either kind is
C10_DataAndCode ==
    (Returned /\ raw.ok /\ ErrorKinds(errors) \subseteq {"InsufficientSections"})
    => ( "InsufficientSections" \in ErrorKinds(result[1].errors)
         <=> ~({"data", "code"} \subseteq HeaderNames(raw.instructions)) )

\* the entries phase 1 owes to the label of instruction k of p: the label met
\* outside a section, or a name already registered by an earlier label
LabelFault(p, k) ==
    IF p[k].label = None THEN <<>>
    ELSE IF ~InSection(p, k) THEN <<NoSegmentDeclarationFound(k - 1)>>
    ELSE IF \E j \in 1..(k - 1) : SameLabel(p, j, k) /\ InSection(p, j)
    THEN <<SymbolAlreadyDeclared>>
    ELSE <<>>

\* the entry phase 1 owes to the directive of instruction k of p: a directive
\* with operands that is not .asciiz
DirectiveFault(p, k) ==
    IF /\ p[k].directive /= None
       /\ has_operands(p[k])
       /\ p[k].directive[1].name /= "asciiz"
    THEN <<UnknownDirectiveFound(p[k].directive[1].name)>>
    ELSE <<>>

Faulty(p) == {k \in DOMAIN p : LabelFault(p, k) \o DirectiveFault(p, k) /= <<>>}

RECURSIVE FaultsUpTo(_, _)
FaultsUpTo(p, n) ==
    IF n = 0 THEN <<>>
    ELSE FaultsUpTo(p, n - 1) \o LabelFault(p, n) \o DirectiveFault(p, n)

Phase1Over == stage = "first" /\ idx > Len(raw.instructions)

C12_SameAsFresh ==
    (Returned /\ calls > 1) => result[1] = assemble(Assembler_new, raw)

\* instruction k of p is a labelled .asciiz with a string
IsLabelledAsciiz(p, k) ==
    /\ p[k].label /= None
    /\ p[k].directive /= None /\ p[k].directive[1].name = "asciiz"
    /\ p[k].operand1 /= None /\ p[k].operand1[1].kind = "IrString"

\* the strings of the labelled .asciiz among the first n instructions, each
\* followed by a zero byte, in source order
RECURSIVE StringsUpTo(_, _)
StringsUpTo(p, n) ==
    IF n = 0 THEN <<>>
    ELSE StringsUpTo(p, n - 1)
           \o (IF IsLabelledAsciiz(p, n) THEN p[n].operand1[1].bytes \o <<0>> ELSE <<>>)

AllAsciizInSection(p) == \A k \in DOMAIN p : IsLabelledAsciiz(p, k) => InSection(p, k)

\* C13: for labelled .asciiz directives processed in phase 1 inside a
\* section, each label's symbol offset is the sum of (length + 1) of the
\* strings declared before it, and the RO buffer is the concatenation, in
\* source order, of each string followed by one zero byte
C13_AsciizOffsets ==
    (Phase1Over /\ AllAsciizInSection(raw.instructions)) =>
        /\ ro = StringsUpTo(raw.instructions, Len(raw.instructions))
        /\ \A k \in DOMAIN raw.instructions :
              IsLabelledAsciiz(raw.instructions, k) =>
                 symbol_value(symbols, raw.instructions[k].label[1].name)
                    = Some(Len(StringsUpTo(raw.instructions, k - 1)))

\* phase 1 is about to process instruction idx, which carries a label, and
\* no recognized section header comes before it
LabelOutsideSection ==
    /\ stage = "first"
    /\ idx <= Len(raw.instructions)
    /\ raw.instructions[idx].label /= None
    /\ ~InSection(raw.instructions, idx)

\* C14: a label declaration met in phase 1 before any section header records
\* exactly one error, NoSegmentDeclarationFound with the index of that
\* instruction (followed only by what the directive of the same line may
\* record), adds no symbol, and phase 1 goes on to the next instruction
C14_LabelOutsideSection ==
    [][ LabelOutsideSection =>
          /\ errors' = Append(errors, NoSegmentDeclarationFound(idx - 1))
                          \o DirectiveFault(raw.instructions, idx)
          /\ symbols' = symbols
          /\ stage' = "first"
          /\ idx' = idx + 1
          /\ current_instruction' = idx ]_vars

\* the label of instruction 1 was refused, phase 1 went on and registered a
\* label that follows a section header
C14_Witness ==
    /\ stage = "first"
    /\ Len(raw.instructions) >= 2
    /\ ~InSection(raw.instructions, 2)
    /\ raw.instructions[2].label /= None
    /\ errors = <<NoSegmentDeclarationFound(1)>>
    /\ Len(symbols) = 1

\* the entries of the error list errs
ErrorSet(errs) == {errs[k] : k \in DOMAIN errs}

\* C22: an opcode instruction that comes before any section header causes
\* NoSegmentDeclarationFound with that instruction's index to be recorded,
\* and assemble returns it among its errors
C22_OpcodeOutsideSection ==
    (Returned /\ raw.ok) =>
        \A k \in DOMAIN raw.instructions :
            (raw.instructions[k].opcode /= None /\ ~InSection(raw.instructions, k))
            => /\ ReturnedErr
               /\ NoSegmentDeclarationFound(k - 1) \in ErrorSet(result[1].errors)

\* instruction k of p is an .asciiz with a string and no label
IsUnlabelledAsciiz(p, k) ==
    /\ p[k].label = None
    /\ p[k].directive /= None /\ p[k].directive[1].name = "asciiz"
    /\ p[k].operand1 /= None /\ p[k].operand1[1].kind = "IrString"

\* C23: a .asciiz directive with a string operand and no label declaration
\* records StringConstantDeclaredWithoutLabel in the error list during
\* phase 1 and appends nothing to the RO buffer
C23_AsciizWithoutLabel ==
    [][ (stage = "first" /\ idx <= Len(raw.instructions)
           /\ IsUnlabelledAsciiz(raw.instructions, idx)) =>
          /\ ro' = ro
          /\ \E n \in 0..MaxInstr :
                errors' = Append(errors, StringConstantDeclaredWithoutLabel(n)) ]_vars

\* the Assembler as phase 1 leaves it on the source of the call
AfterPhase1 == process_first_phase(Assembler_new, raw.instructions, 1)

\* C25: re-dispatching the directives in phase 2 is idempotent: after phase 2
\* symbols, ro, ro_offset, sections, current_section and errors are what
\* they were at the end of phase 1
C25_Phase2Idempotent ==
    (ReturnedOk /\ calls = 1) =>
        /\ symbols = AfterPhase1.symbols
        /\ ro = AfterPhase1.ro
        /\ ro_offset = AfterPhase1.ro_offset
        /\ sections = AfterPhase1.sections
        /\ current_section = AfterPhase1.current_section
        /\ errors = AfterPhase1.errors

\* C26: when phase 1 completes without errors every symbol of the table has
\* a resolved offset, whether its label was declared on an .asciiz directive
\* or on an opcode line, so every usage of a declared label resolves in
\* phase 2
C26_SymbolsResolved ==
    (Phase1Over /\ errors = <<>>) =>
        \A k \in DOMAIN symbols :
            /\ symbols[k].offset /= None
            /\ symbol_value(symbols, symbols[k].name) /= None

\* C28: at every point of an assembly ro_offset is the length of the RO
\* buffer, and the RO buffer is empty or ends with a zero byte
C28_RoOffset ==
    /\ ro_offset = Len(ro)
    /\ ro = <<>> \/ ro[Len(ro)] = 0

\* two strings are in the RO buffer and phase 1 is still running
C28_Witness ==
    /\ stage = "first"
    /\ idx <= Len(raw.instructions)
    /\ ro = <<72, 0, 72, 105, 0>>
    /\ ro_offset = 5

\* the offsets at which the zero-terminated strings of the RO buffer b start
StringStarts(b) ==
    (IF b = <<>> THEN {} ELSE {0}) \cup {k \in 1..(Len(b) - 1) : b[k] = 0}

\* the string of b that starts at offset o, without its terminator
RECURSIVE StringAt(_, _)
StringAt(b, o) ==
    IF o >= Len(b) \/ b[o + 1] = 0 THEN <<>> ELSE <<b[o + 1]>> \o StringAt(b, o + 1)

\* the strings the source declares with label name n, up to instruction idx
DeclaredWith(n) ==
    {raw.instructions[k].operand1[1].bytes :
        k \in {j \in 1..(idx - 1) : /\ IsLabelledAsciiz(raw.instructions, j)
                                    /\ raw.instructions[j].label[1].name = n}}

\* phase 1 is about to process a labelled .asciiz whose label it rejects
RejectedAsciiz ==
    /\ stage = "first"
    /\ idx <= Len(raw.instructions)
    /\ IsLabelledAsciiz(raw.instructions, idx)
    /\ LabelFault(raw.instructions, idx) /= <<>>

\* C29: at every point of phase 1 each string of the RO buffer starts at the
\* resolved offset of some symbol, every symbol with an offset points at a
\* string declared with its label, and a labelled .asciiz whose label was
\* rejected (no section yet, or duplicate name) adds no bytes to RO and
\* changes no symbol's offset
C29_StringsAnchored ==
    /\ [](stage = "first" =>
            /\ \A o \in StringStarts(ro) :
                  \E k \in DOMAIN symbols : symbols[k].offset = Some(o)
            /\ \A k \in DOMAIN symbols :
                  symbols[k].offset /= None =>
                     /\ symbols[k].offset[1] \in StringStarts(ro)
                     /\ StringAt(ro, symbols[k].offset[1]) \in DeclaredWith(symbols[k].name))
    /\ [][ RejectedAsciiz => (ro' = ro /\ symbols' = symbols) ]_vars

(***************************************************************************)
(* Properties of the VM.  They read the bytes of the program and the       *)
(* record `last` of the last execute_instruction call.                     *)
(***************************************************************************)
\* a step that is one execute_instruction call
IsExecute == steps' = steps + 1
\* a step that is the entry of run()
IsRunEntry == vm_status = "idle" /\ vm_status' /= "idle" /\ steps' = steps

NonJumpBytes == {0, 1, 2, 3, 4, 9, 10, 11, 12, 13, 14, 16, 17, 18, 19, 21}
CompareBytes == {9, 10, 11, 12, 13, 14}
\* the byte decodes to HLT (5) or to IGL (any byte that is no opcode)
StopByte(b) == b = 5 \/ b > 21

\* C3: a call of execute_instruction on a non-jump opcode (LOAD, ADD, SUB,
\* MUL, DIV, EQ..LTE, NOP, ALOC, INC, DEC, PRTS) that returns false leaves
\* pc exactly 4 greater than it was at entry
C3_NonJumpAdvancesFour ==
    (last.returned = "false" /\ last.byte \in NonJumpBytes) => pc = last.pc + 4

\* what the flag must be after the comparison of opcode byte b on a and b2
ExpectedFlag(b, x, y) ==
    CASE b = 9 -> x = y
      [] b = 10 -> x /= y
      [] b = 11 -> x > y
      [] b = 12 -> x < y
      [] b = 13 -> x >= y
      [] b = 14 -> x <= y

\* C4: after EQ, NEQ, GT, LT, GTE, LTE r1 r2 the flag is (a==b), (a!=b),
\* (a>b), (a<b), (a>=b), (a<=b) of the signed values a = registers[r1] and
\* b = registers[r2], whatever it held before, and no register has changed
C4_ComparisonFlag ==
    [][ (IsExecute /\ last'.returned = "false" /\ last'.byte \in CompareBytes)
        => /\ equal_flag' = ExpectedFlag(program[pc + 1],
                                         registers[program[pc + 2]],
                                         registers[program[pc + 3]])
           /\ registers' = registers ]_vars

\* EQ then NEQ on the same registers: the second comparison overwrote a flag
\* that held the opposite
C4_Witness ==
    /\ program = <<9, 0, 1, 0, 10, 0, 1, 0>>
    /\ steps = 2
    /\ last = Call(4, 10, "false")
    /\ registers[0] = -1 /\ registers[1] = 4
    /\ equal_flag

\* the three conditions under which the VM should stop, at the last call
StopCondition == last.byte = -1 \/ StopByte(last.byte)

\* C5 as stated: execute_instruction returns true if and only if at entry
\* pc >= program.len() or the byte at pc decodes to HLT or IGL, and returns
\* false in every other case; run() returns exactly then and otherwise
\* keeps stepping
C5_AsStated ==
    last.returned /= "none" =>
        /\ last.returned = (IF StopCondition THEN "true" ELSE "false")
        /\ vm_status = "returned" => StopCondition

\* C5, amended: execute_instruction returns true if and only if at entry
\* pc >= program.len() or the byte at pc decodes to HLT or IGL; in every
\* other case it returns false or panics.  run() returns only when one of
\* the three conditions is reached; otherwise it keeps stepping or dies
\* with the panic
C5_ReturnsTrueIff ==
    last.returned /= "none" =>
        /\ last.returned = "true" <=> StopCondition
        /\ last.returned \in {"true", "false", "panic"}
        /\ vm_status = "returned" => (last.returned = "true" /\ StopCondition)
        /\ vm_status = "running" => last.returned = "false"
        /\ vm_status = "panicked" => last.returned = "panic"

\* run() stopped on an unknown opcode after stepping over an instruction
C5_Witness ==
    /\ vm_status = "returned"
    /\ steps = 2
    /\ last.returned = "true"
    /\ last.byte > 21

HeaderMismatch == Len(program) < 4 \/ SubSeq(program, 1, 4) /= <<45, 50, 49, 45>>

\* C6: run() on a program whose first 4 bytes are not the magic prefix,
\* programs shorter than 4 bytes included, executes no instruction and ends
\* in the abort outcome with registers, pc, heap and equal_flag unchanged
C6_RefusesBadHeader ==
    [][ (IsRunEntry /\ HeaderMismatch)
        => /\ vm_status' = "exited"
           /\ UNCHANGED <<registers, pc, heap, equal_flag>> ]_vars

\* C7: run() begins execution at byte 64: on an image made of the 64-byte
\* header and the instruction stream, the first byte decoded as an opcode
\* is the first byte of the first instruction
C7_StartsAtByte64 ==
    (vm_status \in {"running", "returned"} /\ steps = 1
       /\ Len(program) > 64 /\ \A k \in 5..64 : program[k] = 0)
    => (last.pc = 64 /\ last.byte = program[65])

\* the step is a call of execute_instruction that decoded opcode byte b and
\* returned false
Executed(b) == IsExecute /\ last'.byte = b /\ last'.returned = "false"

\* C15: JMPE r beginning at offset p leaves pc = registers[r], as an unsigned
\* offset, if equal_flag is true and pc = p + 4 if it is false; registers
\* and equal_flag are unchanged
C15_Jmpe ==
    [][ Executed(15) =>
          /\ pc' = (IF equal_flag THEN AsUsize(registers[program[pc + 2]])
                    ELSE pc + 4)
          /\ registers' = registers
          /\ equal_flag' = equal_flag ]_vars

\* a JMPE at offset 4, taken, back to offset 1
C15_Witness ==
    /\ last = Call(4, 15, "false")
    /\ equal_flag
    /\ registers[program[6]] = 1
    /\ pc = 1

\* C16: JMPF r and JMPB r beginning at offset p, with registers[r] = v >= 0,
\* leave pc = p + 2 + v and pc = p + 2 - v (JMPB for v <= p + 2): they count
\* from the position just after the register operand byte
C16_RelativeJumps ==
    [][ /\ (Executed(7) /\ registers[program[pc + 2]] >= 0)
             => pc' = pc + 2 + registers[program[pc + 2]]
        /\ (Executed(8) /\ registers[program[pc + 2]] >= 0
                        /\ registers[program[pc + 2]] <= pc + 2)
             => pc' = pc + 2 - registers[program[pc + 2]] ]_vars

\* a JMPB at offset 4 by 4 reached offset 2
C16_Witness ==
    /\ last = Call(4, 8, "false")
    /\ registers[program[6]] = 4
    /\ pc = 2

\* the two's-complement result of the arithmetic opcode byte b on x and y
ExpectedArith(b, x, y) ==
    CASE b = 1 -> WrapAdd(x, y)
      [] b = 2 -> WrapSub(x, y)
      [] b = 3 -> WrapMul(x, y)

\* execute_instruction is called on a whole ADD, SUB or MUL instruction whose
\* three operand bytes name registers
ArithCall ==
    /\ IsExecute
    /\ last'.byte \in {1, 2, 3}
    /\ pc + 4 <= Len(program)
    /\ \A k \in 2..4 : program[pc + k] < NUM_REGISTERS

\* C17: ADD, SUB and MUL r1 r2 r3 store in registers[r3] the sum, difference
\* or product modulo 2^32 of the values registers[r1] and registers[r2] held
\* before (also when r3 is r1 or r2), change no other register, and do not
\* trap on overflow
C17_WrappingArithmetic ==
    [][ ArithCall =>
          /\ last'.returned = "false"
          /\ registers' =
                [registers EXCEPT ![program[pc + 4]] =
                    ExpectedArith(program[pc + 1], registers[program[pc + 2]],
                                  registers[program[pc + 3]])] ]_vars

TableNames(tab) == {tab[k].name : k \in DOMAIN tab}

\* the step is call c on the SymbolTable
SymStep == sym_call'.seq = sym_call.seq + 1

\* has and value answer for every name but n as they did before the step
OthersKept(n) ==
    \A m \in SymbolNames \ {n} :
        /\ has_symbol(symbols', m) = has_symbol(symbols, m)
        /\ symbol_value(symbols', m) = symbol_value(symbols, m)

\* C19: on a SymbolTable built by add and set_offset calls with unique names,
\* value(n) is the offset most recently assigned to n (by the add that
\* created it with an offset or by a set_offset) and None when n is absent or
\* was never given one; set_offset(n, o) returns true exactly when n is in
\* the table and otherwise changes nothing; has(n) is true exactly for the
\* added names
C19_SymbolTable ==
    /\ [](\A n \in SymbolNames :
            /\ has_symbol(symbols, n) <=> n \in TableNames(symbols)
            /\ n \notin TableNames(symbols) => symbol_value(symbols, n) = None)
    /\ [][ SymStep =>
             /\ sym_call'.op = "add" =>
                   /\ has_symbol(symbols', sym_call'.name)
                   /\ symbol_value(symbols', sym_call'.name) = sym_call'.offset
                   /\ OthersKept(sym_call'.name)
             /\ sym_call'.op = "set_offset" =>
                   /\ sym_call'.returned = (sym_call'.name \in TableNames(symbols))
                   /\ IF sym_call'.name \in TableNames(symbols)
                      THEN /\ symbol_value(symbols', sym_call'.name) = sym_call'.offset
                           /\ has_symbol(symbols', sym_call'.name)
                           /\ OthersKept(sym_call'.name)
                      ELSE symbols' = symbols ]_vars

\* the fourth call set the offset of a to 7 and returned true; b was added
\* and never given an offset, c was never added
C19_Witness ==
    /\ sym_call = SymCall(4, "set_offset", "a", Some(7), TRUE)
    /\ symbol_value(symbols, "a") = Some(7)
    /\ has_symbol(symbols, "b") /\ symbol_value(symbols, "b") = None
    /\ ~has_symbol(symbols, "c") /\ symbol_value(symbols, "c") = None

\* C20: when the byte at pc decodes to HLT or is an unknown byte (IGL),
\* execute_instruction stops having consumed the opcode byte only: pc is 1
\* greater than at entry, and registers, heap, remainder and equal_flag are
\* unchanged
C20_StopConsumesOpcode ==
    [][ (IsExecute /\ last'.byte >= 0 /\ StopByte(last'.byte)) =>
          /\ last'.returned = "true"
          /\ pc' = pc + 1
          /\ UNCHANGED <<registers, heap, remainder, equal_flag>> ]_vars

\* an unknown byte met at offset 4, after an instruction that ran
C20_Witness ==
    /\ last = Call(4, 200, "true")
    /\ steps = 2
    /\ pc = 5

\* C21: DJMPE imm16 beginning at offset p leaves pc = imm16 (the big-endian
\* 16-bit operand) when equal_flag is true and pc = p + 4 when it is false
C21_Djmpe ==
    [][ Executed(20) =>
          pc' = (IF equal_flag THEN program[pc + 2] * 256 + program[pc + 3]
                 ELSE pc + 4) ]_vars

\* execute_instruction is called on a whole DIV instruction whose three
\* operand bytes name registers
DivCall ==
    /\ IsExecute
    /\ last'.byte = 4
    /\ pc + 4 <= Len(program)
    /\ \A k \in 2..4 : program[pc + k] < NUM_REGISTERS

\* what C24 asks of a DIV of x by y into register r3
DivAsClaimed(x, y, r3) ==
    IF y = 0 THEN last'.returned = "panic"
    ELSE /\ last'.returned = "false"
         /\ registers' = [registers EXCEPT ![r3] = TruncDiv(x, y)]
         /\ remainder' = AsU32(TruncRem(x, y))
         /\ WrapAdd(WrapMul(registers'[r3], y), TruncRem(x, y)) = x

\* C24: DIV r1 r2 r3 with registers[r2] /= 0 stores the truncating quotient
\* in registers[r3] and registers[r1] % registers[r2], as u32, in remainder,
\* so that quotient * registers[r2] + remainder is registers[r1] modulo 2^32;
\* with registers[r2] = 0 the VM traps
C24_Division ==
    [][ DivCall => DivAsClaimed(registers[program[pc + 2]],
                                registers[program[pc + 3]],
                                program[pc + 4]) ]_vars

\* C27: the heap only grows: whatever the registers hold (negative values in
\* the ALOC register included), no executed instruction makes heap.len()
\* smaller or discards a heap byte
C27_HeapOnlyGrows ==
    [][ /\ Len(heap') >= Len(heap)
        /\ SubSeq(heap', 1, Len(heap)) = heap ]_vars


(***************************************************************************)
(* Properties of the REPL.                                                 *)
(***************************************************************************)
\* the run_once of the default arm
ReplSteps == vm_status = "appended" /\ IsExecute

\* C30: whatever non-jump instruction lines and .clear commands were typed,
\* when run_once is called pc is the offset at which the 4 bytes just
\* appended to the program begin, so that the instruction just entered is
\* the one the step executes.
C30_EnteredIsExecuted ==
    [][ReplSteps => /\ pc = Len(program) - 4
                    /\ last'.pc = Len(program) - 4
                    /\ last'.byte = program[Len(program) - 3]]_vars

(***************************************************************************)
(* Properties of the program reads.                                        *)
(***************************************************************************)
\* C31: execute_instruction never indexes the program at or beyond its
\* length: whatever the program's bytes and length and whatever pc, a call
\* entered with pc >= program.len() returns true without reading, and any
\* other call reads its opcode and every operand byte inside the program.
C31_ReadsInsideProgram ==
    [][IsExecute =>
          /\ UsizeGe(pc, Len(program))
                => (last'.returned = "true" /\ last'.byte = -1 /\ pc' = pc)
          /\ ~last'.outside]_vars

=============================================================================
